---- MODULE Spec2Model ----
(***************************************************************************)
(* A model of qmp-shell (src/qmp-shell.go): the quote-aware tokenizer, the *)
(* command builder with its value typing, command execution in QMP and HMP *)
(* mode, the HMP completion index, and the process entry (single-shot and  *)
(* interactive).                                                           *)
(*                                                                         *)
(* A Go string is modelled as a sequence of runes, a rune as a one         *)
(* character TLA+ string; rune(0) is the empty string.                     *)
(***************************************************************************)
EXTENDS FiniteSets, Integers, Sequences, TLC

VARIABLES
    pc,          \* position of the process / of the function under study
    str,         \* splitString: argument str
    sep,         \* splitString: argument sep
    fields,      \* splitString: returned slice
    cmdline,     \* the line handed to buildQMPCommand / executeCommand
    built,       \* what buildQMPCommand returned (or that it panicked)
    hmpMode,     \* main: the flag -H
    tty,         \* main: isatty.Check(os.Stdin.Fd())
    isHMP,       \* QMPShell.isHMP
    result,      \* what the last executeCommand returned (or that it panicked)
    sent,        \* the commands executeCommand handed to monitor.Run, in order
    stdout,      \* what was written to os.Stdout, in order
    stderr,      \* what was written to os.Stderr, in order
    exitCode,    \* process exit status (-1 while running)
    lastErr,     \* Serve: the error of the last Prompt call ("none" before it)
    history,     \* liner history (AppendHistory)
    ts,          \* Serve: seconds of the next event to report
    cycles,      \* Serve: lines read so far
    helpReply,   \* the monitor's reply to HMP "help"
    infoReply,   \* the monitor's reply to HMP "info"
    cmdlist,     \* the completion list captured by the completer closure
    completions  \* the last call of the completer: its argument and result

vars == <<pc, str, sep, fields, cmdline, built, hmpMode, tty, isHMP, result,
          sent, stdout, stderr, exitCode, lastErr, history, ts, cycles,
          helpReply, infoReply, cmdlist, completions>>

-----------------------------------------------------------------------------
(* Bounds of the model.                                                    *)

MaxTextLen == 4
MaxArgs == 3
MaxCycles == 2
MaxReplyLines == 2
MaxSeconds == 1

-----------------------------------------------------------------------------
(* Runes and strings.                                                      *)

rune0 == ""

\* unicode.In(c, unicode.Quotation_Mark), on the runes the model uses
IsQuotationMark(c) == c \in {"\"", "'", "«", "»"}

\* unicode.IsSpace(c), on the runes the model uses
IsSpace(c) == c \in {" ", "\t", "\n", "\r", "\f"}

IsDigit(c) == c \in {"0", "1", "2", "3", "4", "5", "6", "7", "8", "9"}

\* unicode.ToLower on one rune
LowerRune(c) ==
    CASE c = "T" -> "t" [] c = "R" -> "r" [] c = "U" -> "u" [] c = "E" -> "e"
      [] c = "F" -> "f" [] c = "A" -> "a" [] c = "L" -> "l" [] c = "S" -> "s"
      [] c = "H" -> "h" [] c = "P" -> "p" [] c = "I" -> "i" [] c = "N" -> "n"
      [] c = "O" -> "o" [] c = "X" -> "x" [] c = "B" -> "b" [] c = "C" -> "c"
      [] c = "K" -> "k" [] c = "Q" -> "q"
      [] OTHER -> c

\* strings.ToLower
ToLower(s) == [i \in 1..Len(s) |-> LowerRune(s[i])]

\* strings.HasPrefix
HasPrefix(s, p) == Len(p) <= Len(s) /\ SubSeq(s, 1, Len(p)) = p

\* All strings over alphabet A of length at most n
RECURSIVE StringsUpTo(_, _)
StringsUpTo(A, n) ==
    IF n = 0 THEN {<<>>}
    ELSE LET shorter == StringsUpTo(A, n - 1)
         IN  shorter \cup {Append(s, c) : s \in shorter, c \in A}

RECURSIVE Concat(_)
Concat(ss) == IF ss = <<>> THEN <<>> ELSE Head(ss) \o Concat(Tail(ss))

-----------------------------------------------------------------------------
(* splitString (src/qmp-shell.go:260-282).                                 *)

\* A closure that differs from the source's: inside a quoted span any
\* quotation mark closes the span, not only the one that opened it.
SplitPredAnyQuoteCloses(c, separator, lastQuote) ==
    CASE c = lastQuote -> [ret |-> FALSE, lastQuote |-> rune0]
      [] lastQuote # rune0 /\ IsQuotationMark(c) -> [ret |-> FALSE, lastQuote |-> rune0]
      [] lastQuote # rune0 -> [ret |-> FALSE, lastQuote |-> lastQuote]
      [] IsQuotationMark(c) -> [ret |-> FALSE, lastQuote |-> c]
      [] OTHER ->
            [ret |-> IF separator = " " THEN IsSpace(c) ELSE c = separator,
             lastQuote |-> lastQuote]

\* The closure f handed to strings.FieldsFunc: one call on rune c with the
\* captured variable lastQuote; yields the returned bool and lastQuote after.
SplitPred(c, separator, lastQuote) ==
    CASE c = lastQuote -> [ret |-> FALSE, lastQuote |-> rune0]
      [] lastQuote # rune0 -> [ret |-> FALSE, lastQuote |-> lastQuote]
      [] IsQuotationMark(c) -> [ret |-> FALSE, lastQuote |-> c]
      [] OTHER ->
            [ret |-> IF separator = " " THEN IsSpace(c) ELSE c = separator,
             lastQuote |-> lastQuote]

\* strings.FieldsFunc(s, f): one left-to-right pass calling f once per rune;
\* cur is the field being collected (empty: no field is open), acc the fields
\* closed so far.
RECURSIVE FieldsFunc(_, _, _, _, _, _)
FieldsFunc(s, separator, i, lastQuote, cur, acc) ==
    IF i > Len(s)
    THEN IF cur # <<>> THEN Append(acc, cur) ELSE acc
    ELSE LET r == SplitPred(s[i], separator, lastQuote)
         IN  IF r.ret
             THEN FieldsFunc(s, separator, i + 1, r.lastQuote, <<>>,
                             IF cur # <<>> THEN Append(acc, cur) ELSE acc)
             ELSE FieldsFunc(s, separator, i + 1, r.lastQuote,
                             Append(cur, s[i]), acc)

splitString(s, separator) == FieldsFunc(s, separator, 1, rune0, <<>>, <<>>)

-----------------------------------------------------------------------------
(* encoding/json as buildQMPCommand uses it: json.Unmarshal(data, &value)  *)
(* into an interface{}.  The text is cut into tokens, and the tokens are   *)
(* checked against the JSON grammar with a stack of the open containers.   *)
(* The value is kept as its tokens.  Escape sequences in JSON strings are  *)
(* not modelled: no input of the model holds a backslash.                  *)

EmptyMap == [k \in {} |-> k]

IsJsonSpace(c) == c \in {" ", "\t", "\n", "\r"}

RECURSIVE DigitsEnd(_, _)
DigitsEnd(s, i) ==
    IF i <= Len(s) /\ IsDigit(s[i]) THEN DigitsEnd(s, i + 1) ELSE i

\* The index of the quote closing the JSON string whose content starts at i,
\* 0 when there is none or the string holds a control character or backslash.
RECURSIVE JsonStringEnd(_, _)
JsonStringEnd(s, i) ==
    IF i > Len(s) THEN 0
    ELSE IF s[i] = "\"" THEN i
    ELSE IF s[i] \in {"\t", "\n", "\r", "\f", "\\", rune0} THEN 0
    ELSE JsonStringEnd(s, i + 1)

\* The digits required from index i on: the index after them, 0 if none
DigitsFrom(s, i) == IF i = 0 \/ DigitsEnd(s, i) = i THEN 0 ELSE DigitsEnd(s, i)

\* The index after the integer part starting at a: 0 | [1-9][0-9]*
JsonIntEnd(s, a) ==
    IF a > Len(s) \/ ~IsDigit(s[a]) THEN 0
    ELSE IF s[a] = "0" THEN a + 1 ELSE DigitsEnd(s, a)

\* The index after the optional fraction at b: (. [0-9]+)?
JsonFracEnd(s, b) ==
    IF b = 0 THEN 0
    ELSE IF b <= Len(s) /\ s[b] = "." THEN DigitsFrom(s, b + 1) ELSE b

\* The index after the optional exponent at c: ([eE] [+-]? [0-9]+)?
JsonExpEnd(s, c) ==
    IF c = 0 THEN 0
    ELSE IF c <= Len(s) /\ s[c] \in {"e", "E"}
         THEN DigitsFrom(s, IF c + 1 <= Len(s) /\ s[c + 1] \in {"+", "-"}
                            THEN c + 2 ELSE c + 1)
         ELSE c

\* The index after the JSON number starting at i, 0 when it is malformed
JsonNumberEnd(s, i) ==
    JsonExpEnd(s, JsonFracEnd(s, JsonIntEnd(s, IF s[i] = "-" THEN i + 1 ELSE i)))

JsonWords ==
    {<<"t", "r", "u", "e">>, <<"f", "a", "l", "s", "e">>, <<"n", "u", "l", "l">>}

\* The index after the token that starts at i, 0 when no token starts there
JsonTokenEnd(s, i) ==
    CASE s[i] \in {"[", "]", "{", "}", ":", ","} -> i + 1
      [] s[i] = "\"" -> IF JsonStringEnd(s, i + 1) = 0 THEN 0
                        ELSE JsonStringEnd(s, i + 1) + 1
      [] s[i] = "-" \/ IsDigit(s[i]) -> JsonNumberEnd(s, i)
      [] \E w \in JsonWords : HasPrefix(SubSeq(s, i, Len(s)), w) ->
            i + Len(CHOOSE w \in JsonWords : HasPrefix(SubSeq(s, i, Len(s)), w))
      [] OTHER -> 0

\* The tokens of s from index i on, after acc; <<"invalid">> closes the list
\* where no token starts
RECURSIVE JsonTokens(_, _, _)
JsonTokens(s, i, acc) ==
    IF i > Len(s) THEN acc
    ELSE IF IsJsonSpace(s[i]) THEN JsonTokens(s, i + 1, acc)
    ELSE IF JsonTokenEnd(s, i) = 0 THEN Append(acc, <<"invalid">>)
    ELSE JsonTokens(s, JsonTokenEnd(s, i), Append(acc, SubSeq(s, i, JsonTokenEnd(s, i) - 1)))

IsScalarToken(t) == t # <<"invalid">> /\ t[1] \notin {"[", "]", "{", "}", ":", ","}

IsStringToken(t) == t[1] = "\""

\* The grammar over the tokens from index k on; expect is what may come
\* next, stack the open containers, innermost last
RECURSIVE JsonGrammar(_, _, _, _)
JsonGrammar(toks, k, expect, stack) ==
    IF k > Len(toks) THEN expect = "end"
    ELSE CASE expect \in {"value", "valueOrClose"} /\ toks[k] = <<"[">> ->
                JsonGrammar(toks, k + 1, "valueOrClose", Append(stack, "["))
           [] expect \in {"value", "valueOrClose"} /\ toks[k] = <<"{">> ->
                JsonGrammar(toks, k + 1, "keyOrClose", Append(stack, "{"))
           [] expect \in {"value", "valueOrClose"} /\ IsScalarToken(toks[k]) ->
                JsonGrammar(toks, k + 1, IF stack = <<>> THEN "end" ELSE "commaOrClose",
                            stack)
           [] expect \in {"key", "keyOrClose"} /\ IsStringToken(toks[k]) ->
                JsonGrammar(toks, k + 1, "colon", stack)
           [] expect = "colon" /\ toks[k] = <<":">> ->
                JsonGrammar(toks, k + 1, "value", stack)
           [] expect = "commaOrClose" /\ toks[k] = <<",">> ->
                JsonGrammar(toks, k + 1,
                            IF stack[Len(stack)] = "[" THEN "value" ELSE "key", stack)
           [] /\ expect \in {"valueOrClose", "keyOrClose", "commaOrClose"}
              /\ toks[k] = (IF stack[Len(stack)] = "[" THEN <<"]">> ELSE <<"}">>)
              /\ (expect = "valueOrClose") => stack[Len(stack)] = "["
              /\ (expect = "keyOrClose") => stack[Len(stack)] = "{" ->
                JsonGrammar(toks, k + 1, IF Len(stack) = 1 THEN "end" ELSE "commaOrClose",
                            SubSeq(stack, 1, Len(stack) - 1))
           [] OTHER -> FALSE

JsonParsed(toks) == [ok |-> JsonGrammar(toks, 1, "value", <<>>), val |-> toks]

\* json.Unmarshal: the whole input must be one value, white space around it
Unmarshal(s) == JsonParsed(JsonTokens(s, 1, <<>>))

-----------------------------------------------------------------------------
(* strconv.ParseInt(s, 10, 64) and strings.Trim.                           *)

DigitVal(c) ==
    CASE c = "0" -> 0 [] c = "1" -> 1 [] c = "2" -> 2 [] c = "3" -> 3
      [] c = "4" -> 4 [] c = "5" -> 5 [] c = "6" -> 6 [] c = "7" -> 7
      [] c = "8" -> 8 [] c = "9" -> 9

RECURSIVE StripZeros(_)
StripZeros(d) ==
    IF Len(d) > 1 /\ d[1] = "0" THEN StripZeros(Tail(d)) ELSE d

\* a <= b for digit strings without leading zeros
RECURSIVE DigitsLeqSameLen(_, _)
DigitsLeqSameLen(a, b) ==
    IF a = <<>> THEN TRUE
    ELSE IF DigitVal(a[1]) # DigitVal(b[1]) THEN DigitVal(a[1]) < DigitVal(b[1])
    ELSE DigitsLeqSameLen(Tail(a), Tail(b))

DigitsLeq(a, b) ==
    Len(a) < Len(b) \/ (Len(a) = Len(b) /\ DigitsLeqSameLen(a, b))

\* 1<<63 - 1 and 1<<63, the largest magnitudes of a signed 64-bit integer
MaxInt64Digits ==
    <<"9", "2", "2", "3", "3", "7", "2", "0", "3", "6", "8", "5", "4", "7", "7",
      "5", "8", "0", "7">>

MinInt64Digits ==
    <<"9", "2", "2", "3", "3", "7", "2", "0", "3", "6", "8", "5", "4", "7", "7",
      "5", "8", "0", "8">>

\* strconv.ParseInt(s, 10, 64): an optional sign '+' or '-', then one or more
\* decimal digits, the value within the int64 range.  The value is kept as
\* sign and magnitude (digits without leading zeros; -0 is 0).
ParseInt(s) ==
    LET signed == s # <<>> /\ s[1] \in {"+", "-"}
        digits == IF signed THEN Tail(s) ELSE s
        mag == StripZeros(digits)
        neg == signed /\ s[1] = "-"
    IN  IF digits = <<>> \/ \E i \in 1..Len(digits) : ~IsDigit(digits[i])
        THEN [ok |-> FALSE]
        ELSE IF ~DigitsLeq(mag, IF neg THEN MinInt64Digits ELSE MaxInt64Digits)
             THEN [ok |-> FALSE]
             ELSE [ok |-> TRUE, neg |-> neg /\ mag # <<"0">>, digits |-> mag]

\* strings.Trim(s, cutset): every leading and every trailing rune of cutset
RECURSIVE TrimLeft(_, _)
TrimLeft(s, cutset) ==
    IF s # <<>> /\ s[1] \in cutset THEN TrimLeft(Tail(s), cutset) ELSE s

RECURSIVE TrimRight(_, _)
TrimRight(s, cutset) ==
    IF s # <<>> /\ s[Len(s)] \in cutset
    THEN TrimRight(SubSeq(s, 1, Len(s) - 1), cutset)
    ELSE s

Trim(s, cutset) == TrimRight(TrimLeft(s, cutset), cutset)

-----------------------------------------------------------------------------
(* buildQMPCommand (src/qmp-shell.go:218-258).                             *)

ErrBadCommandFormat == "command format: <command-name>  [arg-name1=arg1] ... [arg-nameN=argN]"

TrueWord == <<"t", "r", "u", "e">>

FalseWord == <<"f", "a", "l", "s", "e">>

\* case parts[1][0] == '{' || parts[1][0] == '[': the parsed value or the error
StructuredValue(j) ==
    IF j.ok THEN [kind |-> "Structured", tree |-> j.val] ELSE [kind |-> "JSONError"]

\* default: the integer if ParseInt succeeds, else the string
IntegerOrString(v, d) ==
    IF d.ok THEN [kind |-> "Integer", neg |-> d.neg, digits |-> d.digits]
    ELSE [kind |-> "String", s |-> v]

\* A switch that differs from the source's: "true" and "false" are compared
\* without strings.ToLower.
ArgValueCaseSensitive(v) ==
    IF v = TrueWord THEN [kind |-> "Bool", b |-> TRUE]
    ELSE IF v = FalseWord THEN [kind |-> "Bool", b |-> FALSE]
    ELSE IF v = <<>> THEN [kind |-> "Panic"]
    ELSE IF v[1] \in {"{", "["} THEN StructuredValue(Unmarshal(v))
    ELSE IntegerOrString(v, ParseInt(v))

\* The switch on parts[1] after the Trim: the value stored in the map, or
\* the JSON error returned, or the run-time panic of parts[1][0] on an
\* empty string (index out of range).
ArgValue(v) ==
    IF ToLower(v) = TrueWord THEN [kind |-> "Bool", b |-> TRUE]
    ELSE IF ToLower(v) = FalseWord THEN [kind |-> "Bool", b |-> FALSE]
    ELSE IF v = <<>> THEN [kind |-> "Panic"]
    ELSE IF v[1] \in {"{", "["} THEN StructuredValue(Unmarshal(v))
    ELSE IntegerOrString(v, ParseInt(v))

\* A map store that differs from the source's: a key already present keeps
\* its value.
MapStoreKeepFirst(m, k, v) == m @@ (k :> v)

\* m[parts[0]] = value
MapStore(m, k, v) == (k :> v) @@ m

\* parts[1] = strings.Trim(parts[1], "\"'")
TrimQuotes(v) == Trim(v, {"\"", "'"})

\* The loop over cmdargs[1:], from argument i on; m is the map so far and
\* out what fmt.Println(parts[1]) has written so far.  BuildArgs is the loop
\* head, ArgFromParts the check of the parts, ArgStore the switch.
RECURSIVE BuildArgs(_, _, _, _), ArgFromParts(_, _, _, _, _), ArgStore(_, _, _, _, _, _, _)
BuildArgs(cmdargs, i, m, out) ==
    IF i > Len(cmdargs)
    THEN [kind |-> "Command", name |-> cmdargs[1], args |-> m, printed |-> out]
    ELSE ArgFromParts(cmdargs, i, m, out, splitString(cmdargs[i], "="))

ArgFromParts(cmdargs, i, m, out, parts) ==
    IF Len(parts) # 2 \/ Len(parts[2]) = 0
    THEN [kind |-> "Error", err |-> ErrBadCommandFormat, printed |-> out]
    ELSE ArgStore(cmdargs, i, m, out, parts[1], TrimQuotes(parts[2]),
                  ArgValue(TrimQuotes(parts[2])))

ArgStore(cmdargs, i, m, out, key, v, a) ==
    CASE a.kind = "Panic" -> [kind |-> "Panic", printed |-> out]
      [] a.kind = "JSONError" ->
            [kind |-> "Error", err |-> "JSON parsing error",
             printed |-> Append(out, v)]
      [] a.kind = "Structured" ->
            BuildArgs(cmdargs, i + 1, MapStore(m, key, a), Append(out, v))
      [] OTHER ->
            BuildArgs(cmdargs, i + 1, MapStore(m, key, a), out)

buildQMPCommand(line) ==
    LET cmdargs == splitString(line, " ")
    IN  IF Len(cmdargs) = 0
        THEN [kind |-> "Error", err |-> ErrBadCommandFormat, printed |-> <<>>]
        ELSE BuildArgs(cmdargs, 2, EmptyMap, <<>>)

-----------------------------------------------------------------------------
(* Variable groups and their values where a specification does not use     *)
(* them.                                                                   *)

splitVars == <<str, sep, fields>>

buildVars == <<cmdline, built>>

procVars == <<hmpMode, tty, isHMP, result, sent, stdout, stderr, exitCode,
              lastErr, history, ts, cycles>>

indexVars == <<helpReply, infoReply, cmdlist, completions>>

NotBuilt == [kind |-> "None"]

NotAsked == [asked |-> FALSE, line |-> <<>>, list |-> <<>>]

SplitIdle == str = <<>> /\ sep = " " /\ fields = <<>>

BuildIdle == cmdline = <<>> /\ built = NotBuilt

ProcIdle ==
    /\ hmpMode = FALSE /\ tty = FALSE /\ isHMP = FALSE /\ result = NotBuilt
    /\ sent = <<>> /\ stdout = <<>> /\ stderr = <<>> /\ exitCode = -1
    /\ lastErr = "none" /\ history = <<>> /\ ts = 0 /\ cycles = 0

IndexIdle ==
    /\ helpReply = <<>> /\ infoReply = <<>> /\ cmdlist = <<>>
    /\ completions = NotAsked

-----------------------------------------------------------------------------
(* SpecSplit: splitString on every text over SplitAlphabet, for the two    *)
(* separators the program passes (lines 219 and 228).                      *)

SplitAlphabet == {"a", " ", "\t", "=", "'", "\"", "«"}

Separators == {" ", "="}

InitSplit ==
    /\ pc = "call"
    /\ str \in StringsUpTo(SplitAlphabet, MaxTextLen)
    /\ sep \in Separators
    /\ fields = <<>>
    /\ BuildIdle /\ ProcIdle /\ IndexIdle

CallSplitString ==
    /\ pc = "call"
    /\ fields' = splitString(str, sep)
    /\ pc' = "return"
    /\ UNCHANGED <<str, sep, buildVars, procVars, indexVars>>

SpecSplit == InitSplit /\ [][CallSplitString]_vars

\* The quoted span open after the first i runes of text, as the tokenizer's
\* contract states it: rune0 outside every span, else the rune that opened
\* the span and alone closes it.
RECURSIVE OpenQuote(_, _)
OpenQuote(text, i) ==
    IF i = 0 THEN rune0
    ELSE LET q == OpenQuote(text, i - 1)
         IN  IF q = rune0
             THEN IF IsQuotationMark(text[i]) THEN text[i] ELSE rune0
             ELSE IF text[i] = q THEN rune0 ELSE q

\* With separator space the program splits on white space
IsSeparator(c, separator) == IF separator = " " THEN IsSpace(c) ELSE c = separator

\* Position i holds a separator outside every quoted span
Cut(text, separator, i) ==
    OpenQuote(text, i - 1) = rune0 /\ IsSeparator(text[i], separator)

\* The first positions of the maximal runs without a cut
RunStarts(text, separator) ==
    {i \in 1..Len(text) :
        ~Cut(text, separator, i) /\ (i = 1 \/ Cut(text, separator, i - 1))}

RunEnd(text, separator, s) ==
    CHOOSE j \in s..Len(text) :
        /\ \A k \in s..j : ~Cut(text, separator, k)
        /\ (j = Len(text) \/ Cut(text, separator, j + 1))

CountQuotes(text) == Cardinality({i \in 1..Len(text) : IsQuotationMark(text[i])})

\* C5: splitString returns only non-empty tokens, keeps every quotation mark
\* in the token text, and its tokens are exactly the maximal runs between
\* separators that stand outside a quoted span; a span opens at a quotation
\* mark met outside a span and closes only at the same rune or at the end of
\* the text.  The same holds for separator space and separator '='.
C5_TokensAreRunsBetweenUnquotedSeparators ==
    pc = "return" =>
        LET starts == RunStarts(str, sep)
        IN  /\ \A k \in 1..Len(fields) : fields[k] # <<>>
            /\ CountQuotes(Concat(fields)) = CountQuotes(str)
            /\ Len(fields) = Cardinality(starts)
            /\ \A s \in starts :
                    fields[Cardinality({r \in starts : r <= s})]
                        = SubSeq(str, s, RunEnd(str, sep, s))

\* C5 witness: a separator inside a quoted span was kept in a token, a
\* separator outside ended one, and the last span is never closed.
C5_Witness ==
    /\ pc = "return"
    /\ Len(fields) = 2
    /\ OpenQuote(str, Len(str)) # rune0
    /\ \E i \in 1..Len(str) :
            IsSeparator(str[i], sep) /\ OpenQuote(str, i - 1) # rune0
    /\ \E i \in 1..Len(str) : Cut(str, sep, i)

-----------------------------------------------------------------------------
(* SpecValue and SpecBuild: buildQMPCommand on one line.  SpecValue draws  *)
(* lines "c k=<value>" with many values, SpecBuild lines with up to        *)
(* MaxArgs argument tokens.                                                *)

CallBuild ==
    /\ pc = "call"
    /\ built' = buildQMPCommand(cmdline)
    /\ pc' = "return"
    /\ UNCHANGED <<cmdline, splitVars, procVars, indexVars>>

ValueAlphabet == {"4", "-", "+", "x", "'", "\"", "[", "]"}

ValueCorpus ==
    {
        <<"t", "r", "u", "e">>, <<"T", "R", "U", "E">>,
        <<"T", "r", "u", "e">>, <<"f", "a", "l", "s", "e">>,
        <<"F", "A", "L", "S", "E">>, <<"f", "A", "l", "s", "e">>,
        <<"t", "r", "u">>, <<"t", "r", "u", "e", "x">>, <<"4", "2">>,
        <<"4", "2", "x">>, <<"+", "4", "2">>, <<"-", "4", "2">>,
        <<"\"", " ", "4", "2", "\"">>, <<"0", "0", "4", "2">>, <<"-", "0">>,
        <<"+">>, <<"-">>,
        <<"9", "2", "2", "3", "3", "7", "2", "0", "3", "6", "8", "5", "4", "7", "7", "5", "8", "0", "7">>,
        <<"9", "2", "2", "3", "3", "7", "2", "0", "3", "6", "8", "5", "4", "7", "7", "5", "8", "0", "8">>,
        <<"-", "9", "2", "2", "3", "3", "7", "2", "0", "3", "6", "8", "5", "4", "7", "7", "5", "8", "0", "8">>,
        <<"-", "9", "2", "2", "3", "3", "7", "2", "0", "3", "6", "8", "5", "4", "7", "7", "5", "8", "0", "9">>,
        <<"+", "9", "2", "2", "3", "3", "7", "2", "0", "3", "6", "8", "5", "4", "7", "7", "5", "8", "0", "7">>,
        <<"+", "9", "2", "2", "3", "3", "7", "2", "0", "3", "6", "8", "5", "4", "7", "7", "5", "8", "0", "8">>,
        <<"'", "{", "\"", "a", "\"", ":", "1", "}", "'">>,
        <<"'", "{", "b", "a", "d", "'">>, <<"{", "}">>,
        <<"[", "1", ",", "2", "]">>, <<"[", "1", ",">>,
        <<"[", "t", "r", "u", "e", "]">>,
        <<"'", "[", "1", ",", " ", "2", "]", "'">>,
        <<"{", "\"", "a", "\"", ":", "1", "}">>,
        <<"\"", "'", "x", "'", "\"">>, <<"'", "x", "\"">>, <<"\"", "x">>,
        <<"x", "\"">>, <<"\"", "\"">>, <<"'", "'">>,
        <<"\"", "t", "r", "u", "e", "\"">>, <<"'", "4", "2", "'">>, <<"'">>,
        <<"\"", "x", "=", "y", "\"">>, <<"«", "x", "»">>
    }

RawValues == StringsUpTo(ValueAlphabet, MaxTextLen) \cup ValueCorpus

InitValue ==
    /\ pc = "call"
    /\ cmdline \in {<<"c", " ", "k", "=">> \o raw : raw \in RawValues}
    /\ built = NotBuilt
    /\ SplitIdle /\ ProcIdle /\ IndexIdle

SpecValue == InitValue /\ [][CallBuild]_vars

ArgKeys == {<<"a">>, <<"b">>}

ArgValues ==
    {
        <<"1">>, <<"x">>, <<"t", "r", "u", "e">>,
        <<"\"", "x", " ", "y", "\"">>, <<"'", "x">>, <<"[", "1", "]">>
    }

ArgTokens ==
    {k \o <<"=">> \o v : k \in ArgKeys, v \in ArgValues}
        \cup {<<"a">>, <<"a", "=", "b", "=", "1">>}

\* The line "name tok1 ... tokn"
JoinLine(name, toks) ==
    name \o Concat([i \in 1..Len(toks) |-> <<" ">> \o toks[i]])

TokenLists == UNION {[1..n -> ArgTokens] : n \in 0..MaxArgs}

InitArgs ==
    /\ pc = "call"
    /\ cmdline \in {JoinLine(<<"c">>, toks) : toks \in TokenLists}
    /\ built = NotBuilt
    /\ SplitIdle /\ ProcIdle /\ IndexIdle

SpecBuild == InitArgs /\ [][CallBuild]_vars

-----------------------------------------------------------------------------
(* Claims about buildQMPCommand.                                           *)

\* The argument tokens of a line, and the two parts of a token
ArgTokensOf(line) == Tail(splitString(line, " "))

TokenKey(t) == splitString(t, "=")[1]

TokenRaw(t) == splitString(t, "=")[2]

\* The line is a command name and one argument token of two parts
OneArg == Len(splitString(cmdline, " ")) = 2
              /\ Len(splitString(ArgTokensOf(cmdline)[1], "=")) = 2

TheKey == TokenKey(ArgTokensOf(cmdline)[1])

TheRaw == TokenRaw(ArgTokensOf(cmdline)[1])

\* What the build made of the one argument
OutcomeType ==
    CASE built.kind = "Panic" -> "Panic"
      [] built.kind = "Error" ->
            IF built.err = "JSON parsing error" THEN "InvalidStructuredValue"
            ELSE "MalformedArgument"
      [] built.kind = "Command" -> built.args[TheKey].kind

\* v is an optional sign out of signs followed by one or more decimal digits
IsDecimal(v, signs) ==
    LET d == IF v # <<>> /\ v[1] \in signs THEN Tail(v) ELSE v
    IN  d # <<>> /\ \A i \in 1..Len(d) : IsDigit(d[i])

Magnitude(v) == StripZeros(IF v[1] \in {"+", "-"} THEN Tail(v) ELSE v)

FitsInt64(v) ==
    DigitsLeq(Magnitude(v), IF v[1] = "-" THEN MinInt64Digits ELSE MaxInt64Digits)

\* The ordered typing rule, first match wins, with the signs rule 3 admits
RuleType(v, signs) ==
    IF ToLower(v) \in {TrueWord, FalseWord} THEN "Bool"
    ELSE IF v[1] \in {"{", "["}
         THEN IF Unmarshal(v).ok THEN "Structured" ELSE "InvalidStructuredValue"
    ELSE IF IsDecimal(v, signs) /\ FitsInt64(v) THEN "Integer"
    ELSE "String"

\* C4 as stated: the value left by the quote stripping is typed by the
\* ordered rule whose rule 3 is an optional leading '-' and decimal digits
\* within the signed 64-bit range; '+42' is a String.  (Stated for the
\* non-empty values; the empty value is C1's case.)
C4_IntegerOnlyWithOptionalMinus ==
    (pc = "return" /\ OneArg /\ TrimQuotes(TheRaw) # <<>>) =>
        LET v == TrimQuotes(TheRaw)
        IN  /\ OutcomeType = RuleType(v, {"-"})
            /\ OutcomeType = "String" => built.args[TheKey].s = v

\* C4 amended: rule 3 admits a leading '+' as well as '-', so '+42' is the
\* Integer 42; Bool, Structured / InvalidStructuredValue and String are as
\* stated, the String being the text unmodified; an empty value (only quote
\* characters before the stripping) is given no type: the build panics.
C4_TypeByOrderedRule ==
    (pc = "return" /\ OneArg) =>
        LET v == TrimQuotes(TheRaw)
        IN  IF v = <<>> THEN built.kind = "Panic"
            ELSE /\ OutcomeType = RuleType(v, {"+", "-"})
                 /\ OutcomeType = "Bool" =>
                        built.args[TheKey].b = (ToLower(v) = TrueWord)
                 /\ OutcomeType = "Integer" =>
                        /\ built.args[TheKey].digits = Magnitude(v)
                        /\ built.args[TheKey].neg
                               = (v[1] = "-" /\ Magnitude(v) # <<"0">>)
                 /\ OutcomeType = "String" => built.args[TheKey].s = v

\* C4 witness: a value with a leading '+' was typed Integer
C4_Witness ==
    /\ pc = "return" /\ OneArg
    /\ built.kind = "Command"
    /\ TrimQuotes(TheRaw)[1] = "+"
    /\ built.args[TheKey].kind = "Integer"

\* One layer of wrapping quotes: removed only when the value starts and ends
\* with the same ASCII quote character
StripOneLayer(raw) ==
    IF Len(raw) >= 2 /\ raw[1] = raw[Len(raw)] /\ raw[1] \in {"\"", "'"}
    THEN SubSeq(raw, 2, Len(raw) - 1)
    ELSE raw

\* C6: the value that is coerced is the value part with exactly one layer of
\* matching wrapping quotes removed and every other quote character kept
\* (seen on the String values, which carry the text unmodified).
C6_StripsOneMatchingLayer ==
    (pc = "return" /\ OneArg /\ built.kind = "Command"
        /\ built.args[TheKey].kind = "String") =>
            built.args[TheKey].s = StripOneLayer(TheRaw)

\* A token the build accepts: two parts, and a value that is given a type
WellFormedToken(t) ==
    /\ Len(splitString(t, "=")) = 2
    /\ ArgValue(TrimQuotes(TokenRaw(t))).kind \notin {"Panic", "JSONError"}

WellFormedLine(line) ==
    /\ splitString(line, " ") # <<>>
    /\ \A i \in 1..Len(ArgTokensOf(line)) : WellFormedToken(ArgTokensOf(line)[i])

\* The last token of toks that carries key k
LastWith(toks, k) ==
    toks[CHOOSE i \in 1..Len(toks) :
            /\ TokenKey(toks[i]) = k
            /\ \A j \in (i + 1)..Len(toks) : TokenKey(toks[j]) # k]

DistinctKeys(toks) ==
    \A i, j \in 1..Len(toks) : i # j => TokenKey(toks[i]) # TokenKey(toks[j])

IndexPermutations(n) == {p \in [1..n -> 1..n] : \A i, j \in 1..n : i # j => p[i] # p[j]}

CommandOf(b) == [name |-> b.name, args |-> b.args]

\* Name, keys and last-wins values of the Command built from a well-formed line
NameKeysAndLastValues ==
    LET toks == ArgTokensOf(cmdline)
    IN  /\ built.kind = "Command"
        /\ built.name = splitString(cmdline, " ")[1]
        /\ DOMAIN built.args = {TokenKey(toks[i]) : i \in 1..Len(toks)}
        /\ \A k \in DOMAIN built.args :
                built.args[k] = ArgValue(TrimQuotes(TokenRaw(LastWith(toks, k))))

\* Every line made of the same name and the argument tokens in another order
\* builds the same Command
SameUnderPermutation ==
    LET toks == ArgTokensOf(cmdline)
        name == splitString(cmdline, " ")[1]
    IN  \A p \in IndexPermutations(Len(toks)) :
            LET other == buildQMPCommand(
                            JoinLine(name, [i \in 1..Len(toks) |-> toks[p[i]]]))
            IN  other.kind = "Command" /\ CommandOf(other) = CommandOf(built)

\* C3 as stated: a well-formed line builds the Command of its name, its keys
\* and the coerced value of the last token of each key, and permuting
\* argument tokens with pairwise distinct keys does not change the Command.
C3_LastWinsAndAnyPermutation ==
    (pc = "return" /\ WellFormedLine(cmdline)) =>
        /\ NameKeysAndLastValues
        /\ DistinctKeys(ArgTokensOf(cmdline)) => SameUnderPermutation

\* C3 amended: as stated, the permutation part for the lines whose last
\* token leaves no quoted span open (an unclosed quote swallows the tokens
\* moved behind it).
C3_LastWinsAndPermutationOfClosedTokens ==
    (pc = "return" /\ WellFormedLine(cmdline)) =>
        /\ NameKeysAndLastValues
        /\ (DistinctKeys(ArgTokensOf(cmdline))
                /\ OpenQuote(cmdline, Len(cmdline)) = rune0) => SameUnderPermutation

\* C3 witness: a key given twice with different values, beside another key
C3_Witness ==
    /\ pc = "return" /\ WellFormedLine(cmdline)
    /\ LET toks == ArgTokensOf(cmdline)
       IN  /\ Len(toks) = 3
           /\ TokenKey(toks[1]) = TokenKey(toks[3])
           /\ TokenKey(toks[1]) # TokenKey(toks[2])
           /\ ArgValue(TrimQuotes(TokenRaw(toks[1])))
                  # ArgValue(TrimQuotes(TokenRaw(toks[3])))
           /\ built.args[TokenKey(toks[1])] = ArgValue(TrimQuotes(TokenRaw(toks[3])))

-----------------------------------------------------------------------------
(* Library functions NewHMPShell and the completers use: strings.Split,    *)
(* strings.Fields, strings.Index, sort.Strings.                            *)

\* The printable ASCII runes in code order, from U+0020 on (the grave accent,
\* which a TLA+ string cannot hold, by its name)
Ascii ==
    <<" ", "!", "\"", "#", "$", "%", "&", "'", "(", ")", "*", "+", ",", "-",
      ".", "/", "0", "1", "2", "3", "4", "5", "6", "7", "8", "9", ":", ";",
      "<", "=", ">", "?", "@", "A", "B", "C", "D", "E", "F", "G", "H", "I",
      "J", "K", "L", "M", "N", "O", "P", "Q", "R", "S", "T", "U", "V", "W",
      "X", "Y", "Z", "[", "\\", "]", "^", "_", "U+0060", "a", "b", "c", "d", "e",
      "f", "g", "h", "i", "j", "k", "l", "m", "n", "o", "p", "q", "r", "s",
      "t", "u", "v", "w", "x", "y", "z", "{", "|", "}", "~">>

\* The code point of a rune (the bytes sort.Strings compares)
CodePoint(c) ==
    CASE c = "\t" -> 9 [] c = "\n" -> 10 [] c = "\r" -> 13
      [] OTHER -> 31 + (CHOOSE i \in 1..Len(Ascii) : Ascii[i] = c)

\* a < b as Go compares strings
RECURSIVE StringLess(_, _)
StringLess(a, b) ==
    IF b = <<>> THEN FALSE
    ELSE IF a = <<>> THEN TRUE
    ELSE IF a[1] # b[1] THEN CodePoint(a[1]) < CodePoint(b[1])
    ELSE StringLess(Tail(a), Tail(b))

RECURSIVE InsertSorted(_, _)
InsertSorted(list, x) ==
    IF list = <<>> THEN <<x>>
    ELSE IF StringLess(x, list[1]) THEN <<x>> \o list
    ELSE <<list[1]>> \o InsertSorted(Tail(list), x)

\* sort.Strings
RECURSIVE SortStrings(_)
SortStrings(list) ==
    IF list = <<>> THEN <<>>
    ELSE InsertSorted(SortStrings(SubSeq(list, 1, Len(list) - 1)), list[Len(list)])

\* strings.Split(s, d): the pieces of s between the occurrences of d
RECURSIVE SplitOn(_, _, _, _)
SplitOn(s, d, cur, acc) ==
    IF s = <<>> THEN Append(acc, cur)
    ELSE IF HasPrefix(s, d)
         THEN SplitOn(SubSeq(s, Len(d) + 1, Len(s)), d, <<>>, Append(acc, cur))
         ELSE SplitOn(Tail(s), d, Append(cur, s[1]), acc)

Split(s, d) == SplitOn(s, d, <<>>, <<>>)

\* strings.Fields(s): the maximal runs of runes that are not white space
RECURSIVE FieldsOf(_, _, _)
FieldsOf(s, cur, acc) ==
    IF s = <<>> THEN IF cur # <<>> THEN Append(acc, cur) ELSE acc
    ELSE IF IsSpace(s[1])
         THEN FieldsOf(Tail(s), <<>>, IF cur # <<>> THEN Append(acc, cur) ELSE acc)
         ELSE FieldsOf(Tail(s), Append(cur, s[1]), acc)

Fields(s) == FieldsOf(s, <<>>, <<>>)

\* strings.Index(s, c) != -1
Contains(s, c) == \E i \in 1..Len(s) : s[i] = c

CRLF == <<"\r", "\n">>

-----------------------------------------------------------------------------
(* NewHMPShell: the completion list (src/qmp-shell.go:298-341) and the     *)
(* completer (src/qmp-shell.go:343-350, and 90-97 in NewQMPShell).         *)

InfoWord == <<"i", "n", "f", "o">>

HelpPrefix == <<"h", "e", "l", "p", " ">>

InfoPrefix == <<"i", "n", "f", "o", " ">>

Panicked == [panic |-> TRUE, list |-> <<>>]

Entries(list) == [panic |-> FALSE, list |-> list]

\* The name chosen when the line holds a bar: nn is name split at the bars;
\* nn[1] if len(nn[0]) == 1 (a panic when nn has one element), else nn[0]
AliasName(name) ==
    LET nn == Split(name, <<"|">>)
    IN  IF Len(nn[1]) = 1
        THEN IF Len(nn) < 2 THEN Panicked ELSE Entries(<<nn[2]>>)
        ELSE Entries(<<nn[1]>>)

\* The loop over the lines of the "help" reply: the entries appended to
\* cmdlist, or the run-time panic of an index out of range
RECURSIVE HelpEntries(_, _)
HelpEntries(lines, acc) ==
    IF lines = <<>> THEN Entries(acc)
    ELSE LET line == Head(lines)
         IN  IF ~(Len(line) > 0 /\ line[1] # "[" /\ line[1] # "\t")
             THEN HelpEntries(Tail(lines), acc)
             ELSE IF Fields(line) = <<>> THEN Panicked
             ELSE LET name == Fields(line)[1]
                  IN  IF name = InfoWord THEN HelpEntries(Tail(lines), acc)
                      ELSE LET chosen == IF Contains(line, "|") THEN AliasName(name)
                                         ELSE Entries(<<name>>)
                           IN  IF chosen.panic THEN Panicked
                               ELSE HelpEntries(Tail(lines),
                                        acc \o <<chosen.list[1],
                                                 HelpPrefix \o chosen.list[1]>>)

\* The loop over the lines of the "info" reply
RECURSIVE InfoEntries(_, _)
InfoEntries(lines, acc) ==
    IF lines = <<>> THEN acc
    ELSE LET line == Head(lines)
         IN  IF ~(Len(line) > 0 /\ Len(Fields(line)) >= 2)
             THEN InfoEntries(Tail(lines), acc)
             ELSE InfoEntries(Tail(lines), Append(acc, InfoPrefix \o Fields(line)[2]))

\* cmdlist after both loops and sort.Strings(cmdlist); a panic of the
\* first loop ends the process
BuildIndex(help, info) ==
    LET h == HelpEntries(Split(help, CRLF), <<>>)
    IN  IF h.panic THEN Panicked
        ELSE Entries(SortStrings(InfoEntries(Split(info, CRLF), h.list)))

\* The completer closure: the entries n of cmdlist, in order, with
\* strings.HasPrefix(n, strings.ToLower(line))
Completer(list, line) ==
    SelectSeq(list, LAMBDA n : HasPrefix(n, ToLower(line)))

-----------------------------------------------------------------------------
(* executeCommand (src/qmp-shell.go:191-216).                              *)

HMCName == <<"h", "u", "m", "a", "n", "-", "m", "o", "n", "i", "t", "o", "r", "-", "c", "o", "m", "m", "a", "n", "d">>

CommandLineKey == <<"c", "o", "m", "m", "a", "n", "d", "-", "l", "i", "n", "e">>

\* fmt.Sprintf("human-monitor-command command-line='%s'", cmdline)
HMPWrap(line) == HMCName \o <<" ">> \o CommandLineKey \o <<"=", "'">> \o line \o <<"'">>

QMPCommand(b) == [name |-> b.name, args |-> b.args]

\* What monitor.Run may answer: an error, or a result
ReplyKinds == {"error", "result"}

\* executeCommand(cmdline) on a shell with isHMP = hmp, the monitor answering
\* reply: the returned (string, error) or the panic, with what the build
\* printed and the commands handed to monitor.Run.  A result is rendered
\* raw (fmt.Sprintf("%s", res)) for human-monitor-command, else indented.
executeCommand(line, hmp, reply) ==
    LET b == buildQMPCommand(IF hmp THEN HMPWrap(line) ELSE line)
    IN  CASE b.kind = "Panic" ->
                [kind |-> "Panic", printed |-> b.printed, sent |-> <<>>]
          [] b.kind = "Error" ->
                [kind |-> "Error", err |-> b.err, printed |-> b.printed,
                 sent |-> <<>>]
          [] OTHER ->
                IF reply.kind = "error"
                THEN [kind |-> "Error", err |-> "monitor error",
                      printed |-> b.printed, sent |-> <<QMPCommand(b)>>]
                ELSE [kind |-> "Result",
                      text |-> [raw |-> b.name = HMCName, res |-> reply.res],
                      printed |-> b.printed, sent |-> <<QMPCommand(b)>>]

-----------------------------------------------------------------------------
(* The process: main (src/qmp-shell.go:378-443), NewQMPShell, NewHMPShell, *)
(* Serve.  What is written is kept as a list of entries per stream.        *)

\* fmt.Println(parts[1]) in buildQMPCommand (line 243)
EchoLines(printed) == [i \in 1..Len(printed) |-> [what |-> "echo", text |-> printed[i]]]

\* fmt.Println(res)
ResultLine(text) == [what |-> "result", text |-> text]

\* fmt.Println(err) in Serve
PlainErrorLine(err) == [what |-> "error", err |-> err]

\* The logger Error = log.New(os.Stdout, "qmp_shell error: ", 0) (line 24)
ErrorLoggerLine(err) == [what |-> "qmp_shell error", err |-> err]

PanicLine == [what |-> "panic", err |-> "index out of range"]

\* What a finished executeCommand makes Serve or main write to os.Stdout
Written(r, errorLine) ==
    EchoLines(r.printed) \o
        (CASE r.kind = "Result" -> <<ResultLine(r.text)>>
           [] r.kind = "Error" -> <<errorLine>>
           [] OTHER -> <<>>)

\* The lines typed or piped in
InputLines ==
    {
        <<"q">>, <<"c", " ", "k", "=", "1">>,
        <<"c", " ", "k", "=", "\"", "\"">>, <<"c", " ", "k">>,
        <<"c", " ", "k", "=", "[", "1">>,
        <<"c", " ", "k", "=", "[", "1", "]">>, <<"t", "r", "u", "e">>,
        <<"4", "2">>, <<"{", "x">>, <<"i", "t", "'", "s">>,
        <<"i", "t", "'", "s", " ", "x">>, <<"a", "=", "b">>,
        <<"\"", "q", "\"">>, <<"'">>
    }

QMPCommandLists == {<<>>, <<<<"q">>, <<"c">>>>, <<<<"q">>, <<"Q">>, <<"q">>>>}

HelpLine == <<"h", "e", "l", "p">>

\* flag.NArg() != 1: printUsage
UsageExit ==
    /\ pc = "main"
    /\ stderr' = Append(stderr, [what |-> "usage"])
    /\ exitCode' = 2
    /\ pc' = "exited"
    /\ UNCHANGED <<splitVars, buildVars, indexVars, hmpMode, tty, isHMP, result,
                   sent, stdout, lastErr, history, ts, cycles>>

\* NewQMPShell returns an error (no connection, or one of query-name,
\* query-version, query-commands fails): Error.Fatalln(err)
NewQMPShellFails ==
    /\ pc = "main"
    /\ stdout' = Append(stdout, ErrorLoggerLine("startup"))
    /\ exitCode' = 1
    /\ pc' = "exited"
    /\ UNCHANGED <<splitVars, buildVars, indexVars, hmpMode, tty, isHMP, result,
                   sent, stderr, lastErr, history, ts, cycles>>

\* NewQMPShell: the completion list is the sorted names of query-commands
NewQMPShell ==
    /\ pc = "main"
    /\ ~hmpMode
    /\ \E names \in QMPCommandLists : cmdlist' = SortStrings(names)
    /\ pc' = "shell"
    /\ UNCHANGED <<splitVars, buildVars, helpReply, infoReply, completions,
                   hmpMode, tty, isHMP, result, sent, stdout, stderr, exitCode,
                   lastErr, history, ts, cycles>>

\* NewHMPShell after its NewQMPShell succeeded: "help" and "info" are
\* executed and their replies parsed into the completion list
NewHMPShell ==
    /\ pc = "main"
    /\ hmpMode
    /\ isHMP' = TRUE
    /\ \E k1, k2 \in ReplyKinds :
        LET e1 == executeCommand(HelpLine, TRUE, [kind |-> k1, res |-> helpReply])
            e2 == executeCommand(InfoWord, TRUE, [kind |-> k2, res |-> infoReply])
            h == HelpEntries(Split(helpReply, CRLF), <<>>)
        IN  CASE e1.kind # "Result" ->
                    /\ sent' = sent \o e1.sent
                    /\ result' = e1
                    /\ stdout' = Append(stdout, ErrorLoggerLine(e1.err))
                    /\ exitCode' = 1 /\ pc' = "exited"
                    /\ UNCHANGED <<cmdlist, stderr>>
              [] e1.kind = "Result" /\ h.panic ->
                    /\ sent' = sent \o e1.sent
                    /\ result' = e1
                    /\ stderr' = Append(stderr, PanicLine)
                    /\ exitCode' = 2 /\ pc' = "panicked"
                    /\ UNCHANGED <<cmdlist, stdout>>
              [] e1.kind = "Result" /\ ~h.panic /\ e2.kind # "Result" ->
                    /\ sent' = sent \o e1.sent \o e2.sent
                    /\ result' = e2
                    /\ stdout' = Append(stdout, ErrorLoggerLine(e2.err))
                    /\ exitCode' = 1 /\ pc' = "exited"
                    /\ UNCHANGED <<cmdlist, stderr>>
              [] OTHER ->
                    /\ sent' = sent \o e1.sent \o e2.sent
                    /\ result' = e2
                    /\ cmdlist' = BuildIndex(helpReply, infoReply).list
                    /\ pc' = "shell"
                    /\ UNCHANGED <<stdout, stderr, exitCode>>
    /\ UNCHANGED <<splitVars, buildVars, helpReply, infoReply, completions,
                   hmpMode, tty, lastErr, history, ts, cycles>>

\* Standard input is no terminal and holds no complete line
StdinReadFails ==
    /\ pc = "shell"
    /\ ~tty
    /\ stdout' = Append(stdout, ErrorLoggerLine("cannot read command from stdin"))
    /\ exitCode' = 1
    /\ pc' = "exited"
    /\ UNCHANGED <<splitVars, buildVars, indexVars, hmpMode, tty, isHMP, result,
                   sent, stderr, lastErr, history, ts, cycles>>

\* Single shot: r.ReadString('\n') yields the line with its newline;
\* shell.Execute(cmdline); the result is printed and the process exits 0, or
\* Error.Fatalln(err)
SingleShot ==
    /\ pc = "shell"
    /\ ~tty
    /\ \E line \in InputLines, k \in ReplyKinds :
        LET r == executeCommand(line \o <<"\n">>, isHMP, [kind |-> k, res |-> "reply"])
        IN  /\ cmdline' = line \o <<"\n">>
            /\ result' = r
            /\ sent' = sent \o r.sent
            /\ stdout' = stdout \o Written(r, ErrorLoggerLine(IF r.kind = "Error"
                                                              THEN r.err ELSE ""))
            /\ stderr' = IF r.kind = "Panic" THEN Append(stderr, PanicLine) ELSE stderr
            /\ exitCode' = CASE r.kind = "Result" -> 0
                             [] r.kind = "Error" -> 1
                             [] OTHER -> 2
            /\ pc' = IF r.kind = "Panic" THEN "panicked" ELSE "exited"
    /\ UNCHANGED <<splitVars, built, indexVars, hmpMode, tty, isHMP, lastErr,
                   history, ts, cycles>>

\* Interactive: LoadHistory (a failure is logged), then Serve prints its
\* banner.  The history file is taken to be empty or absent.
StartServe ==
    /\ pc = "shell"
    /\ tty
    /\ \E load \in {"ok", "error"} :
        stdout' = stdout
                    \o (IF load = "error"
                        THEN <<ErrorLoggerLine("reading history file")>> ELSE <<>>)
                    \o <<[what |-> "banner"]>>
    /\ pc' = "prompt"
    /\ UNCHANGED <<splitVars, buildVars, indexVars, hmpMode, tty, isHMP, result,
                   sent, stderr, exitCode, lastErr, history, ts, cycles>>

\* Serve, case nil with an empty line: the events found since ts are printed
PromptEmptyLine ==
    /\ pc = "prompt"
    /\ cycles < MaxCycles
    /\ cycles' = cycles + 1
    /\ lastErr' = "nil"
    /\ \/ UNCHANGED <<stdout, ts>>
       \/ \E seconds \in ts..MaxSeconds :
            /\ stdout' = Append(stdout, [what |-> "event", seconds |-> seconds])
            /\ ts' = seconds + 1
    /\ UNCHANGED <<splitVars, buildVars, indexVars, hmpMode, tty, isHMP, result,
                   sent, stderr, exitCode, history, pc>>

\* Serve, case nil with a non-empty line: AppendHistory, executeCommand, and
\* the result or the error is printed
PromptCommandLine(Lines) ==
    /\ pc = "prompt"
    /\ cycles < MaxCycles
    /\ cycles' = cycles + 1
    /\ lastErr' = "nil"
    /\ \E line \in Lines, k \in ReplyKinds :
        LET r == executeCommand(line, isHMP, [kind |-> k, res |-> "reply"])
        IN  /\ history' = Append(history, line)
            /\ cmdline' = line
            /\ result' = r
            /\ sent' = sent \o r.sent
            /\ stdout' = stdout \o Written(r, PlainErrorLine(IF r.kind = "Error"
                                                             THEN r.err ELSE ""))
            /\ stderr' = IF r.kind = "Panic" THEN Append(stderr, PanicLine) ELSE stderr
            /\ exitCode' = IF r.kind = "Panic" THEN 2 ELSE exitCode
            /\ pc' = IF r.kind = "Panic" THEN "panicked" ELSE "prompt"
    /\ UNCHANGED <<splitVars, built, indexVars, hmpMode, tty, isHMP, ts>>

\* Serve, case liner.ErrPromptAborted: log.Print("Aborted"), return nil
PromptAborted ==
    /\ pc = "prompt"
    /\ lastErr' = "ErrPromptAborted"
    /\ stderr' = Append(stderr, [what |-> "log", text |-> "Aborted"])
    /\ pc' = "served"
    /\ UNCHANGED <<splitVars, buildVars, indexVars, hmpMode, tty, isHMP, result,
                   sent, stdout, exitCode, history, ts, cycles>>

\* Serve, default case (end of input, any other error): fmt.Println(), return nil
PromptEOF ==
    /\ pc = "prompt"
    /\ lastErr' = "EOF"
    /\ stdout' = Append(stdout, [what |-> "newline"])
    /\ pc' = "served"
    /\ UNCHANGED <<splitVars, buildVars, indexVars, hmpMode, tty, isHMP, result,
                   sent, stderr, exitCode, history, ts, cycles>>

\* main after Serve: SaveHistory (a failure is logged), return
SaveHistoryAndExit ==
    /\ pc = "served"
    /\ \E save \in {"ok", "error"} :
        stdout' = IF save = "error"
                  THEN Append(stdout, ErrorLoggerLine("writing history file"))
                  ELSE stdout
    /\ exitCode' = 0
    /\ pc' = "exited"
    /\ UNCHANGED <<splitVars, buildVars, indexVars, hmpMode, tty, isHMP, result,
                   sent, stderr, lastErr, history, ts, cycles>>

\* The line editor calls the completer on the partial input
Complete(Partials) ==
    /\ pc = "prompt"
    /\ \E line \in Partials :
        completions' = [asked |-> TRUE, line |-> line,
                        list |-> Completer(cmdlist, line)]
    /\ UNCHANGED <<splitVars, buildVars, procVars, helpReply, infoReply, cmdlist, pc>>

-----------------------------------------------------------------------------
(* Spec: the whole process, in QMP and HMP mode, single shot and           *)
(* interactive, on the lines of InputLines.                                *)

\* A reply text: its lines, each ended by CR LF
JoinCRLF(lines) == Concat([i \in 1..Len(lines) |-> lines[i] \o CRLF])

MainHelpReplies ==
    {JoinCRLF(<<<<"s", "i", "|", "s", "t", "e", "p", " ", "a">>,
                <<"S", "t", "o", "p">>>>),
     JoinCRLF(<<<<" ">>>>)}

MainInfoReplies == {JoinCRLF(<<<<"i", "n", "f", "o", " ", "b", "a", "l", " ", " ", "x">>>>)}

MainPartials == {<<"s">>}

ProcInit ==
    /\ pc = "main"
    /\ isHMP = FALSE /\ result = NotBuilt
    /\ sent = <<>> /\ stdout = <<>> /\ stderr = <<>> /\ exitCode = -1
    /\ lastErr = "none" /\ history = <<>> /\ ts = 0 /\ cycles = 0
    /\ cmdlist = <<>> /\ completions = NotAsked

Init ==
    /\ ProcInit
    /\ tty \in BOOLEAN
    /\ hmpMode \in BOOLEAN
    /\ IF hmpMode
       THEN helpReply \in MainHelpReplies /\ infoReply \in MainInfoReplies
       ELSE helpReply = <<>> /\ infoReply = <<>>
    /\ SplitIdle /\ BuildIdle

Next ==
    \/ UsageExit
    \/ NewQMPShellFails
    \/ NewQMPShell
    \/ NewHMPShell
    \/ StdinReadFails
    \/ SingleShot
    \/ StartServe
    \/ PromptEmptyLine
    \/ PromptCommandLine(InputLines)
    \/ PromptAborted
    \/ PromptEOF
    \/ SaveHistoryAndExit
    \/ Complete(MainPartials)

Spec == Init /\ [][Next]_vars

\* The Command that forwards line L verbatim in HMP mode
PassThrough(L) ==
    [name |-> HMCName, args |-> (CommandLineKey :> [kind |-> "String", s |-> L])]

\* C1: no input line makes the interactive loop stop: after a Prompt call
\* that returned a line (no interrupt, no end of input) the loop is back at
\* the prompt, whatever the line.
C1_NoLineEndsTheLoop == lastErr = "nil" => pc = "prompt"

\* C2: in HMP mode every submitted line L is sent as exactly one Command,
\* human-monitor-command with the one argument command-line bound to the
\* String L, character for character: interactively one per line of the
\* history (after the two of the start-up), in a single shot one for the
\* line read.
C2_HMPForwardsLineVerbatim ==
    /\ (isHMP /\ tty /\ lastErr # "none") =>
            /\ Len(sent) = 2 + Len(history)
            /\ \A i \in 1..Len(history) : sent[2 + i] = PassThrough(history[i])
    /\ (isHMP /\ ~tty /\ cmdline # <<>>) =>
            /\ Len(sent) = 3
            /\ sent[3] = PassThrough(cmdline)

\* C7: in single-shot mode, once the one line is read and executed,
\* standard output holds exactly the formatted result when the command
\* succeeds (exit status 0), and nothing when the build or the transport
\* fails (the error is on the error stream, the exit status is not 0).
C7_SingleShotStdout ==
    (~tty /\ cmdline # <<>> /\ pc \in {"exited", "panicked"}) =>
        IF exitCode = 0
        THEN result.kind = "Result" /\ stdout = <<ResultLine(result.text)>>
        ELSE stdout = <<>> /\ stderr # <<>>

-----------------------------------------------------------------------------
(* SpecIndex: the start of the shell on many "help" and "info" replies,    *)
(* and the completer on its list.                                          *)

HelpLinePool ==
    {
        <<"s", "i", "|", "s", "t", "e", "p", " ", "a">>,
        <<"s", "|", "s", "t", "o", "p">>, <<"i", "n", "f", "o", " ", "x">>,
        <<"h", "e", "l", "p">>, <<"x", " ", "a", "|", "b">>, <<" ">>,
        <<"[", "a">>, <<"\t", "b">>, <<"S", "t", "o", "p">>, <<"|", "f">>
    }

InfoLinePool ==
    {
        <<"i", "n", "f", "o", " ", "b", "a", "l", " ", " ", "x">>, <<"x">>,
        <<"i", "n", "f", "o", " ", "B", "a", "l", " ", "y">>
    }

ReplyTexts(Pool) ==
    {JoinCRLF(lines) : lines \in UNION {[1..n -> Pool] : n \in 0..MaxReplyLines}}

IndexPartials == {<<>>, <<"s">>, <<"S">>, <<"h", "E">>, <<"i", "n", "f", "o", " ", "b">>}

InitIndex ==
    /\ ProcInit
    /\ tty = TRUE
    /\ hmpMode \in BOOLEAN
    /\ IF hmpMode
       THEN helpReply \in ReplyTexts(HelpLinePool) /\ infoReply \in ReplyTexts(InfoLinePool)
       ELSE helpReply = <<>> /\ infoReply = <<>>
    /\ SplitIdle /\ BuildIdle

NextIndex ==
    \/ NewQMPShellFails
    \/ NewQMPShell
    \/ NewHMPShell
    \/ StartServe
    \/ Complete(IndexPartials)

SpecIndex == InitIndex /\ [][NextIndex]_vars

Range(list) == {list[i] : i \in 1..Len(list)}

\* C8: the completion list NewHMPShell builds is sorted and holds no entry
\* twice: it is the set union of the entries of both parses.
C8_IndexSortedWithoutDuplicates ==
    (isHMP /\ pc \in {"shell", "prompt"}) =>
        /\ \A i \in 1..(Len(cmdlist) - 1) : StringLess(cmdlist[i], cmdlist[i + 1])
        /\ Range(cmdlist)
              = Range(HelpEntries(Split(helpReply, CRLF), <<>>).list)
                    \cup Range(InfoEntries(Split(infoReply, CRLF), <<>>))

\* C9: the completer returns an entry exactly when the lower-cased partial
\* input is a prefix of the entry compared without regard to case.
C9_CompletionIgnoresCase ==
    completions.asked =>
        \A e \in Range(cmdlist) :
            (e \in Range(completions.list))
                <=> HasPrefix(ToLower(e), ToLower(completions.line))

\* The name the alias rule selects for a token that holds a bar: the first
\* alias if it is longer than one character, the second otherwise
SelectAlias(token) ==
    LET nn == Split(token, <<"|">>)
    IN  IF Len(nn[1]) > 1 THEN nn[1] ELSE nn[2]

\* The entries of the command-list parse as the rule states it: per kept
\* line, the first field (none on a line of white space), the status name
\* skipped, the alias rule applied exactly to a token that holds a bar
RECURSIVE RuleHelpEntries(_)
RuleHelpEntries(lines) ==
    IF lines = <<>> THEN <<>>
    ELSE LET line == Head(lines)
             kept == Len(line) > 0 /\ line[1] # "[" /\ line[1] # "\t"
                        /\ Fields(line) # <<>> /\ Fields(line)[1] # InfoWord
             token == Fields(line)[1]
             name == IF Contains(token, "|") THEN SelectAlias(token) ELSE token
         IN  (IF kept THEN <<name, HelpPrefix \o name>> ELSE <<>>)
                \o RuleHelpEntries(Tail(lines))

\* C10: the command-list parse finishes on every reply, and registers for
\* every kept line the name the rule selects from the line's first field
\* (alias selection exactly when the field holds a bar) and "help " + name.
C10_HelpParseFinishesWithRuleNames ==
    (hmpMode /\ pc # "main" /\ ~(pc = "exited" /\ exitCode = 1)) =>
        /\ pc # "panicked"
        /\ cmdlist = SortStrings(RuleHelpEntries(Split(helpReply, CRLF))
                                    \o InfoEntries(Split(infoReply, CRLF), <<>>))

====
